---- MODULE Spec2Model ----
(***************************************************************************)
(* The two drivers of examples/python/t_reconstruction_system/             *)
(* rgbd_odometry.py: rgbd_odometry (frame to frame) and rgbd_loop_closure  *)
(* (all pairs of keyframes).  The image reader, the multi-scale odometry   *)
(* estimator, the information matrix estimator and the visualizer are      *)
(* library calls: each either returns or raises, and the model chooses     *)
(* between the two.  What the estimators return is kept as a term over the *)
(* frames they were handed; only info[5, 5], which the code reads, is a    *)
(* number.                                                                 *)
(***************************************************************************)
EXTENDS Integers, Sequences, FiniteSets

\* ---------------------------------------------------------------- bounds
\* Longest frame list (len(depth_list)) and largest odometry_loop_interval.
MaxFrames == 3
MaxInterval == 2
\* Size of every depth image (depth_curr.columns, depth_curr.rows).
Columns == 5
Rows == 2

\* Scenario 2 of the specification: 10 frames, interval 5.
Scenario2 == [n_files |-> 10, interval |-> 5]

\* The inputs of rgbd_loop_closure: (len(depth_list), odometry_loop_interval).
LoopInputs ==
    {[n_files |-> n, interval |-> s] : n \in 0..MaxFrames, s \in 1..MaxInterval}
        \cup {Scenario2}

Drivers == {"rgbd_odometry", "rgbd_loop_closure"}
SupportedMethods == {"point2plane", "intensity", "hybrid"}
OdometryMethods == SupportedMethods \cup {"bogus"}

\* info[5, 5] of the matrices the information estimator may return: none,
\* the largest value at or below 0.3 of the pixels, the next one above.
PixelCount == Columns * Rows
InfoVals == {0, (3 * PixelCount) \div 10, (3 * PixelCount) \div 10 + 1}

NoFrame == 0 - 1
NoTransform == [src |-> NoFrame, dst |-> NoFrame]
NoInfo == [src |-> NoFrame, dst |-> NoFrame, transformation |-> NoTransform,
           v55 |-> 0 - 1]
NoResult == <<>>

VARIABLES
    driver,           \* which function runs
    n_files,          \* len(depth_list) = len(color_list)
    interval,         \* config.odometry_loop_interval
    odometry_method,  \* config.odometry_method
    debug_mode,       \* config.debug_mode
    pc,               \* position in the function
    key_indices,      \* rgbd_loop_closure: the keyframes
    i, j,             \* loop variables
    method,           \* the Method handed to the estimator
    curr, next,       \* frame index held in rgbd_curr / rgbd_next
    res, info,        \* results of the two estimator calls
    edges, poses, infos,
    exc,              \* the exception that left the function, or "none"
    returned,         \* <<>> or <<edges, poses, infos>> as returned
    reads,            \* frame indices handed to read_image, in order
    estCalls,         \* calls of rgbd_odometry_multi_scale, in order
    infoCalls,        \* calls of compute_odometry_information_matrix
    debugCalls,       \* pairs drawn by the debug block
    skipped,          \* pairs whose estimation raised and was passed over
    baseline          \* edges of the same run had no estimator raised

config == <<driver, n_files, interval, odometry_method, debug_mode>>
locals == <<key_indices, i, j, method, curr, next, res, info>>
lists == <<edges, poses, infos>>
logs == <<reads, estCalls, infoCalls, debugCalls, skipped, baseline>>
vars == <<config, pc, locals, lists, exc, returned, logs>>

\* ------------------------------------------------------------- helpers

\* list(range(start, stop, step)) for step >= 1.
RangeMutInclusive(start, stop, step) ==
    [k \in 1..(IF stop >= start THEN (stop - start) \div step + 1 ELSE 0)
        |-> start + (k - 1) * step]

Range(start, stop, step) ==
    [k \in 1..(IF stop > start THEN (stop - start + step - 1) \div step ELSE 0)
        |-> start + (k - 1) * step]

\* depth_list[k] / color_list[k] exists.
InList(k) == 0 <= k /\ k < n_files

\* What rgbd_odometry_multi_scale returns for (rgbd_curr, rgbd_next).
Transformation(src, dst) == [src |-> src, dst |-> dst]

\* What compute_odometry_information_matrix returns.
Information(src, dst, t, v) ==
    [src |-> src, dst |-> dst, transformation |-> t, v55 |-> v]

EstCall(src, dst, m) ==
    [src |-> src, dst |-> dst, init |-> "identity", method |-> m]

InfoCall(src, dst, t) == [src |-> src, dst |-> dst, transformation |-> t]

\* info[5, 5] / (depth_curr.columns * depth_curr.rows) > 0.3
KeepPairMutGeq(m) == 10 * m.v55 >= 3 * (Columns * Rows)

KeepPair(m) == 10 * m.v55 > 3 * (Columns * Rows)

\* method of rgbd_odometry for a supported config.odometry_method.
MethodOf(name) ==
    CASE name = "point2plane" -> "PointToPlane"
      [] name = "intensity" -> "Intensity"
      [] name = "hybrid" -> "Hybrid"
      [] OTHER -> "Method"

\* An exception leaves the function: nothing is returned.
Raise(e) == pc' = "raised" /\ exc' = e

\* ---------------------------------------------------------------- Init

Init ==
    /\ driver \in Drivers
    /\ \/ /\ driver = "rgbd_odometry"
          /\ n_files \in 0..MaxFrames
          /\ interval \in 1..MaxInterval
          /\ pc = "odo_load0"
       \/ /\ driver = "rgbd_loop_closure"
          /\ \E c \in LoopInputs : n_files = c.n_files /\ interval = c.interval
          /\ pc = "lc_setup"
    /\ odometry_method \in OdometryMethods
    /\ debug_mode \in BOOLEAN
    /\ key_indices = <<>>
    /\ i = 0
    /\ j = 0
    /\ method = "Method"
    /\ curr = NoFrame
    /\ next = NoFrame
    /\ res = NoTransform
    /\ info = NoInfo
    /\ edges = <<>>
    /\ poses = <<>>
    /\ infos = <<>>
    /\ exc = "none"
    /\ returned = NoResult
    /\ reads = <<>>
    /\ estCalls = <<>>
    /\ infoCalls = <<>>
    /\ debugCalls = <<>>
    /\ skipped = <<>>
    /\ baseline = <<>>

\* ------------------------------------------------------- rgbd_odometry

\* Lines 112-114: read frame 0 into rgbd_curr.
OdoLoadFirstMutNoRead ==
    /\ pc = "odo_load0"
    /\ pc' = "odo_method"
    /\ UNCHANGED <<config, locals, lists, exc, returned, logs>>

OdoLoadFirst ==
    /\ pc = "odo_load0"
    /\ \/ /\ ~InList(0)
          /\ Raise("IndexError")
          /\ UNCHANGED <<curr, reads>>
       \/ /\ InList(0)
          /\ reads' = Append(reads, 0)
          /\ \/ /\ curr' = 0
                /\ pc' = "odo_method"
                /\ exc' = exc
             \/ /\ Raise("ResourceLoadFailure")
                /\ curr' = curr
    /\ UNCHANGED <<config, key_indices, i, j, method, next, res, info, lists,
                   returned, estCalls, infoCalls, debugCalls, skipped, baseline>>

\* Lines 123-137: choose the method, or raise; then the three empty lists.
OdoSelectMethodMutDefault ==
    /\ pc = "odo_method"
    /\ method' = (IF odometry_method \in SupportedMethods
                  THEN MethodOf(odometry_method) ELSE "PointToPlane")
    /\ edges' = <<>> /\ poses' = <<>> /\ infos' = <<>>
    /\ i' = 0
    /\ pc' = "odo_loop"
    /\ UNCHANGED <<config, key_indices, j, curr, next, res, info, exc,
                   returned, logs>>

OdoSelectMethod ==
    /\ pc = "odo_method"
    /\ \/ /\ odometry_method \in SupportedMethods
          /\ method' = MethodOf(odometry_method)
          /\ edges' = <<>> /\ poses' = <<>> /\ infos' = <<>>
          /\ i' = 0
          /\ pc' = "odo_loop"
          /\ exc' = exc
       \/ /\ odometry_method \notin SupportedMethods
          /\ Raise("UnsupportedMethod")
          /\ UNCHANGED <<method, lists, i>>
    /\ UNCHANGED <<config, key_indices, j, curr, next, res, info,
                   returned, logs>>

\* Lines 138-141 and 158: the next i of range(0, len(depth_list) - 1) and the
\* read of frame i + 1, or the return when the range is used up.
OdoLoop ==
    /\ pc = "odo_loop"
    /\ \/ /\ i < n_files - 1
          /\ reads' = Append(reads, i + 1)
          /\ \/ /\ next' = i + 1
                /\ pc' = "odo_est"
                /\ exc' = exc
             \/ /\ Raise("ResourceLoadFailure")
                /\ next' = next
          /\ returned' = returned
       \/ /\ ~(i < n_files - 1)
          /\ returned' = <<edges, poses, infos>>
          /\ pc' = "done"
          /\ UNCHANGED <<next, reads, exc>>
    /\ UNCHANGED <<config, key_indices, i, j, method, curr, res, info, lists,
                   estCalls, infoCalls, debugCalls, skipped, baseline>>

\* Lines 143-145: the estimator on (rgbd_curr, rgbd_next); no try around it.
OdoEstimateMutSkip ==
    /\ pc = "odo_est"
    /\ estCalls' = Append(estCalls, EstCall(curr, next, method))
    /\ \/ /\ res' = Transformation(curr, next)
          /\ pc' = "odo_info"
          /\ UNCHANGED <<i, curr>>
       \/ /\ res' = res
          /\ i' = i + 1
          /\ curr' = next
          /\ pc' = "odo_loop"
    /\ UNCHANGED <<config, key_indices, j, method, next, info, lists, exc,
                   returned, reads, infoCalls, debugCalls, skipped, baseline>>

OdoEstimate ==
    /\ pc = "odo_est"
    /\ estCalls' = Append(estCalls, EstCall(curr, next, method))
    /\ \/ /\ res' = Transformation(curr, next)
          /\ pc' = "odo_info"
          /\ exc' = exc
       \/ /\ Raise("AlignmentFailure")
          /\ res' = res
    /\ UNCHANGED <<config, key_indices, i, j, method, curr, next, info, lists,
                   returned, reads, infoCalls, debugCalls, skipped, baseline>>

\* Lines 146-148: the information matrix of (depth_curr, depth_next) under
\* res.transformation; no try around it.
OdoInformation ==
    /\ pc = "odo_info"
    /\ infoCalls' = Append(infoCalls, InfoCall(curr, next, res))
    /\ \/ /\ \E v \in InfoVals : info' = Information(curr, next, res, v)
          /\ pc' = "odo_append"
          /\ exc' = exc
       \/ /\ Raise("DegenerateGeometry")
          /\ info' = info
    /\ UNCHANGED <<config, key_indices, i, j, method, curr, next, res, lists,
                   returned, reads, estCalls, debugCalls, skipped, baseline>>

\* Lines 150-156: append the triple, whatever the information matrix says,
\* and make the next frame the current one.
OdoAppendMutFiltered ==
    /\ pc = "odo_append"
    /\ IF KeepPair(info)
       THEN /\ edges' = Append(edges, <<i, i + 1>>)
            /\ poses' = Append(poses, res)
            /\ infos' = Append(infos, info)
       ELSE UNCHANGED lists
    /\ curr' = next
    /\ i' = i + 1
    /\ pc' = "odo_loop"
    /\ UNCHANGED <<config, key_indices, j, method, next, res, info, exc,
                   returned, logs>>

OdoAppendMutKeepCurr ==
    /\ pc = "odo_append"
    /\ edges' = Append(edges, <<i, i + 1>>)
    /\ poses' = Append(poses, res)
    /\ infos' = Append(infos, info)
    /\ i' = i + 1
    /\ pc' = "odo_loop"
    /\ UNCHANGED <<config, key_indices, j, method, curr, next, res, info, exc,
                   returned, logs>>

OdoAppend ==
    /\ pc = "odo_append"
    /\ edges' = Append(edges, <<i, i + 1>>)
    /\ poses' = Append(poses, res)
    /\ infos' = Append(infos, info)
    /\ curr' = next
    /\ i' = i + 1
    /\ pc' = "odo_loop"
    /\ UNCHANGED <<config, key_indices, j, method, next, res, info, exc,
                   returned, logs>>

\* --------------------------------------------------- rgbd_loop_closure

\* Lines 38-55: the keyframes, the empty lists, the fixed method.
LcSetupMutHonour ==
    /\ pc = "lc_setup"
    /\ key_indices' = Range(0, n_files, interval)
    /\ edges' = <<>> /\ poses' = <<>> /\ infos' = <<>>
    /\ method' = MethodOf(odometry_method)
    /\ i' = 0
    /\ pc' = "lc_outer"
    /\ UNCHANGED <<config, j, curr, next, res, info, exc, returned, logs>>

LcSetup ==
    /\ pc = "lc_setup"
    /\ key_indices' = Range(0, n_files, interval)
    /\ edges' = <<>> /\ poses' = <<>> /\ infos' = <<>>
    /\ method' = "PointToPlane"
    /\ i' = 0
    /\ pc' = "lc_outer"
    /\ UNCHANGED <<config, j, curr, next, res, info, exc, returned, logs>>

\* Lines 58-62 and 105: the next i of range(n_key_indices - 1) and the read
\* of keyframe i, or the return when the range is used up.
LcOuter ==
    /\ pc = "lc_outer"
    /\ \/ /\ i < Len(key_indices) - 1
          /\ reads' = Append(reads, key_indices[i + 1])
          /\ \/ /\ curr' = key_indices[i + 1]
                /\ j' = i + 1
                /\ pc' = "lc_inner"
                /\ exc' = exc
             \/ /\ Raise("ResourceLoadFailure")
                /\ UNCHANGED <<curr, j>>
          /\ returned' = returned
       \/ /\ ~(i < Len(key_indices) - 1)
          /\ returned' = <<edges, poses, infos>>
          /\ pc' = "done"
          /\ UNCHANGED <<curr, reads, j, exc>>
    /\ UNCHANGED <<config, key_indices, i, method, next, res, info, lists,
                   estCalls, infoCalls, debugCalls, skipped, baseline>>

\* Lines 64-68: the next j of range(i + 1, n_key_indices) and the read of
\* keyframe j, or the end of the inner loop.
LcInnerMutReadInTry ==
    /\ pc = "lc_inner"
    /\ \/ /\ j < Len(key_indices)
          /\ reads' = Append(reads, key_indices[j + 1])
          /\ \/ /\ next' = key_indices[j + 1]
                /\ pc' = "lc_est"
                /\ UNCHANGED <<j, skipped>>
             \/ /\ skipped' = Append(skipped,
                        [edge |-> <<key_indices[i + 1], key_indices[j + 1]>>,
                         exc |-> "ResourceLoadFailure", keep |-> FALSE])
                /\ j' = j + 1
                /\ pc' = "lc_inner"
                /\ next' = next
          /\ i' = i
       \/ /\ ~(j < Len(key_indices))
          /\ i' = i + 1
          /\ pc' = "lc_outer"
          /\ UNCHANGED <<next, reads, j, skipped>>
    /\ UNCHANGED <<config, key_indices, method, curr, res, info, lists, exc,
                   returned, estCalls, infoCalls, debugCalls, baseline>>

LcInnerMutOffByOne ==
    /\ pc = "lc_inner"
    /\ \/ /\ j < Len(key_indices)
          /\ reads' = Append(reads, key_indices[j])
          /\ \/ /\ next' = key_indices[j]
                /\ pc' = "lc_est"
                /\ exc' = exc
             \/ /\ Raise("ResourceLoadFailure")
                /\ next' = next
          /\ i' = i
       \/ /\ ~(j < Len(key_indices))
          /\ i' = i + 1
          /\ pc' = "lc_outer"
          /\ UNCHANGED <<next, reads, exc>>
    /\ UNCHANGED <<config, key_indices, j, method, curr, res, info, lists,
                   returned, estCalls, infoCalls, debugCalls, skipped, baseline>>

LcInner ==
    /\ pc = "lc_inner"
    /\ \/ /\ j < Len(key_indices)
          /\ reads' = Append(reads, key_indices[j + 1])
          /\ \/ /\ next' = key_indices[j + 1]
                /\ pc' = "lc_est"
                /\ exc' = exc
             \/ /\ Raise("ResourceLoadFailure")
                /\ next' = next
          /\ i' = i
       \/ /\ ~(j < Len(key_indices))
          /\ i' = i + 1
          /\ pc' = "lc_outer"
          /\ UNCHANGED <<next, reads, exc>>
    /\ UNCHANGED <<config, key_indices, j, method, curr, res, info, lists,
                   returned, estCalls, infoCalls, debugCalls, skipped, baseline>>

\* The pair the inner loop is at: (key_i, key_j).
LcEdge == <<key_indices[i + 1], key_indices[j + 1]>>

LcSkipMutBreak(e, keep) ==
    /\ skipped' = Append(skipped, [edge |-> LcEdge, exc |-> e, keep |-> keep])
    /\ baseline' = (IF keep THEN Append(baseline, LcEdge) ELSE baseline)
    /\ j' = Len(key_indices)
    /\ pc' = "lc_inner"
    /\ exc' = exc

\* Lines 80-81: except Exception: pass.  The pair leaves no trace in the
\* lists and the inner loop goes on.  keep: whether the run in which the
\* estimators do not raise keeps the pair.
LcSkipMutRetry(e, keep) ==
    /\ skipped' = Append(skipped, [edge |-> LcEdge, exc |-> e, keep |-> keep])
    /\ baseline' = (IF keep THEN Append(baseline, LcEdge) ELSE baseline)
    /\ j' = j
    /\ pc' = "lc_inner"
    /\ exc' = exc

LcSkip(e, keep) ==
    /\ skipped' = Append(skipped, [edge |-> LcEdge, exc |-> e, keep |-> keep])
    /\ baseline' = (IF keep THEN Append(baseline, LcEdge) ELSE baseline)
    /\ j' = j + 1
    /\ pc' = "lc_inner"
    /\ exc' = exc

\* Lines 72-75: the estimator on (rgbd_curr, rgbd_next), inside the try.
LcEstimateMutNoTry ==
    /\ pc = "lc_est"
    /\ estCalls' = Append(estCalls, EstCall(curr, next, method))
    /\ \/ /\ res' = Transformation(curr, next)
          /\ pc' = "lc_info"
          /\ UNCHANGED <<j, exc>>
       \/ /\ Raise("AlignmentFailure")
          /\ UNCHANGED <<j, res>>
    /\ UNCHANGED <<config, key_indices, i, method, curr, next, info, lists,
                   returned, reads, infoCalls, debugCalls, skipped, baseline>>

LcEstimate ==
    /\ pc = "lc_est"
    /\ estCalls' = Append(estCalls, EstCall(curr, next, method))
    /\ \/ /\ res' = Transformation(curr, next)
          /\ pc' = "lc_info"
          /\ UNCHANGED <<j, exc, skipped, baseline>>
       \/ /\ \E v \in InfoVals :
                LcSkip("AlignmentFailure",
                       KeepPair(Information(curr, next,
                                            Transformation(curr, next), v)))
          /\ res' = res
    /\ UNCHANGED <<config, key_indices, i, method, curr, next, info, lists,
                   returned, reads, infoCalls, debugCalls>>

\* Lines 76-79: the information matrix, inside the same try.
LcInformation ==
    /\ pc = "lc_info"
    /\ infoCalls' = Append(infoCalls, InfoCall(curr, next, res))
    /\ \/ /\ \E v \in InfoVals : info' = Information(curr, next, res, v)
          /\ pc' = "lc_filter"
          /\ UNCHANGED <<j, exc, skipped, baseline>>
       \/ /\ \E v \in InfoVals :
                LcSkip("DegenerateGeometry",
                       KeepPair(Information(curr, next, res, v)))
          /\ info' = info
    /\ UNCHANGED <<config, key_indices, i, method, curr, next, res, lists,
                   returned, reads, estCalls, debugCalls>>

\* Lines 83-88: the else branch of the try: keep the triple when the ratio
\* is above 0.3; then the debug block when config.debug_mode is set.
LcFilterMutEdgeFirst ==
    /\ pc = "lc_filter"
    /\ edges' = Append(edges, LcEdge)
    /\ IF KeepPair(info)
       THEN /\ poses' = Append(poses, res)
            /\ infos' = Append(infos, info)
            /\ baseline' = Append(baseline, LcEdge)
       ELSE UNCHANGED <<poses, infos, baseline>>
    /\ IF debug_mode
       THEN pc' = "lc_debug" /\ j' = j
       ELSE pc' = "lc_inner" /\ j' = j + 1
    /\ UNCHANGED <<config, key_indices, i, method, curr, next, res, info, exc,
                   returned, reads, estCalls, infoCalls, debugCalls, skipped>>

LcFilterMutPrepend ==
    /\ pc = "lc_filter"
    /\ IF KeepPair(info)
       THEN /\ edges' = <<LcEdge>> \o edges
            /\ poses' = <<res>> \o poses
            /\ infos' = <<info>> \o infos
            /\ baseline' = Append(baseline, LcEdge)
       ELSE UNCHANGED <<lists, baseline>>
    /\ IF debug_mode
       THEN pc' = "lc_debug" /\ j' = j
       ELSE pc' = "lc_inner" /\ j' = j + 1
    /\ UNCHANGED <<config, key_indices, i, method, curr, next, res, info, exc,
                   returned, reads, estCalls, infoCalls, debugCalls, skipped>>

LcFilterMutDebugIfKept ==
    /\ pc = "lc_filter"
    /\ IF KeepPair(info)
       THEN /\ edges' = Append(edges, LcEdge)
            /\ poses' = Append(poses, res)
            /\ infos' = Append(infos, info)
            /\ baseline' = Append(baseline, LcEdge)
       ELSE UNCHANGED <<lists, baseline>>
    /\ IF debug_mode /\ KeepPair(info)
       THEN pc' = "lc_debug" /\ j' = j
       ELSE pc' = "lc_inner" /\ j' = j + 1
    /\ UNCHANGED <<config, key_indices, i, method, curr, next, res, info, exc,
                   returned, reads, estCalls, infoCalls, debugCalls, skipped>>

LcFilter ==
    /\ pc = "lc_filter"
    /\ \/ /\ KeepPair(info)
          /\ edges' = Append(edges, LcEdge)
          /\ poses' = Append(poses, res)
          /\ infos' = Append(infos, info)
          /\ baseline' = Append(baseline, LcEdge)
       \/ /\ ~KeepPair(info)
          /\ UNCHANGED <<lists, baseline>>
    /\ \/ /\ debug_mode
          /\ pc' = "lc_debug"
          /\ j' = j
       \/ /\ ~debug_mode
          /\ pc' = "lc_inner"
          /\ j' = j + 1
    /\ UNCHANGED <<config, key_indices, i, method, curr, next, res, info, exc,
                   returned, reads, estCalls, infoCalls, debugCalls, skipped>>

\* Lines 88-103: the debug block, in the else branch and so outside the try:
\* it draws the pair, or raises.
LcDebugMutAppendsPose ==
    /\ pc = "lc_debug"
    /\ debugCalls' = Append(debugCalls, LcEdge)
    /\ poses' = Append(poses, res)
    /\ \/ /\ j' = j + 1
          /\ pc' = "lc_inner"
          /\ exc' = exc
       \/ /\ Raise("DebugHookFailure")
          /\ j' = j
    /\ UNCHANGED <<config, key_indices, i, method, curr, next, res, info,
                   edges, infos, returned, reads, estCalls, infoCalls, skipped,
                   baseline>>

LcDebug ==
    /\ pc = "lc_debug"
    /\ debugCalls' = Append(debugCalls, LcEdge)
    /\ \/ /\ j' = j + 1
          /\ pc' = "lc_inner"
          /\ exc' = exc
       \/ /\ Raise("DebugHookFailure")
          /\ j' = j
    /\ UNCHANGED <<config, key_indices, i, method, curr, next, res, info,
                   lists, returned, reads, estCalls, infoCalls, skipped,
                   baseline>>

\* ---------------------------------------------------------------- Spec

Next ==
    \/ OdoLoadFirst
    \/ OdoSelectMethod
    \/ OdoLoop
    \/ OdoEstimate
    \/ OdoInformation
    \/ OdoAppend
    \/ LcSetup
    \/ LcOuter
    \/ LcInner
    \/ LcEstimate
    \/ LcInformation
    \/ LcFilter
    \/ LcDebug

Spec == Init /\ [][Next]_vars

\* The interpreter runs the function to its end: a step that can be taken is
\* taken.
FairSpec == Spec /\ WF_vars(Next)

\* -------------------------------------------------------------- claims

Odo == driver = "rgbd_odometry"
Lc == driver = "rgbd_loop_closure"
EstimatorErrors == {"AlignmentFailure", "DegenerateGeometry"}

\* The set of elements of a sequence.
Elems(s) == {s[k] : k \in 1..Len(s)}

\* The frame pair of every estimator call, in call order.
CalledPairs == [k \in 1..Len(estCalls) |-> <<estCalls[k].src, estCalls[k].dst>>]

\* All pairs (K[a], K[b]), a < b, a ascending and b ascending within a.
RECURSIVE AllPairsFrom(_, _, _)
AllPairsFrom(K, a, b) ==
    IF a >= Len(K) THEN <<>>
    ELSE IF b > Len(K) THEN AllPairsFrom(K, a + 1, a + 2)
    ELSE <<<<K[a], K[b]>>>> \o AllPairsFrom(K, a, b + 1)

AllPairs(K) == AllPairsFrom(K, 1, 2)

\* E, P, I are in step: same length, and P[k], I[k] are what the two
\* estimators computed, in calls the run made, for the frames E[k] names.
InStep(E, P, I) ==
    /\ Len(E) = Len(P)
    /\ Len(P) = Len(I)
    /\ \A k \in 1..Len(E) :
        /\ P[k].src = E[k][1] /\ P[k].dst = E[k][2]
        /\ I[k].src = E[k][1] /\ I[k].dst = E[k][2]
        /\ I[k].transformation = P[k]
        /\ \E c \in 1..Len(estCalls) :
              estCalls[c].src = E[k][1] /\ estCalls[c].dst = E[k][2]
        /\ \E c \in 1..Len(infoCalls) :
              /\ infoCalls[c].src = E[k][1] /\ infoCalls[c].dst = E[k][2]
              /\ infoCalls[c].transformation = P[k]

\* C1: rgbd_odometry on N >= 1 frames with a supported method returns unless
\* a read or an estimator call raises, and what it returns is three lists of
\* length N - 1 whose edges are (0,1), (1,2), ..., (N-2,N-1) in this order:
\* no pair is left out, whatever its information matrix.
C1_SequentialEdges ==
    Odo =>
      /\ (pc = "done") =>
           /\ n_files >= 1
           /\ odometry_method \in SupportedMethods
           /\ Len(returned[1]) = n_files - 1
           /\ Len(returned[2]) = n_files - 1
           /\ Len(returned[3]) = n_files - 1
           /\ returned[1] = [k \in 1..(n_files - 1) |-> <<k - 1, k>>]
      /\ (pc = "raised" /\ n_files >= 1 /\ odometry_method \in SupportedMethods)
           => exc \in EstimatorErrors \cup {"ResourceLoadFailure"}
      /\ (pc \notin {"done", "raised"}) => ENABLED Next

\* Three frames, both pairs returned, one of them with a ratio of at most 0.3.
C1_Witness ==
    /\ Odo /\ pc = "done" /\ n_files = 3
    /\ returned[1] = <<<<0, 1>>, <<1, 2>>>>
    /\ \E k \in 1..2 : 10 * returned[3][k].v55 <= 3 * Columns * Rows

\* C2: in both drivers, whenever the function is between two pairs and in
\* what it returns, edges, poses and infos have one length and the pose and
\* the information matrix at an index are those computed for the frames the
\* edge at that index names.
C2_ListsInStep ==
    /\ InStep(edges, poses, infos)
    /\ (pc = "done") => InStep(returned[1], returned[2], returned[3])

\* Loop closure over three keyframes: the first pair raised, the second was
\* filtered out, the third is the one edge returned.
C2_Witness ==
    /\ Lc /\ pc = "done" /\ Len(key_indices) = 3
    /\ Len(skipped) = 1 /\ skipped[1].edge = <<key_indices[1], key_indices[2]>>
    /\ Len(infoCalls) = 2
    /\ returned[1] = <<<<key_indices[2], key_indices[3]>>>>

\* C3: in rgbd_loop_closure an exception of either estimator never leaves the
\* function; the pair it was raised for has no edge, pose or info; and the
\* estimator is called for the pairs in order without a gap, up to the last
\* pair when the function returns.
C3_SkipOnFailure ==
    Lc =>
      /\ exc \notin EstimatorErrors
      /\ \A s \in 1..Len(skipped) :
            /\ skipped[s].edge \notin Elems(edges)
            /\ \A k \in 1..Len(poses) :
                  <<poses[k].src, poses[k].dst>> # skipped[s].edge
            /\ \A k \in 1..Len(infos) :
                  <<infos[k].src, infos[k].dst>> # skipped[s].edge
            /\ skipped[s].edge \in Elems(CalledPairs)
      /\ Len(edges) + Len(skipped) <= Len(estCalls)
      /\ CalledPairs = SubSeq(AllPairs(key_indices), 1, Len(estCalls))
      /\ (pc = "done") =>
            /\ CalledPairs = AllPairs(key_indices)
            /\ Len(returned[1]) + Len(skipped) <= Len(estCalls)

\* Three keyframes: the estimator raised for the first pair, the information
\* estimator for the second, and the third pair is returned.
C3_Witness ==
    /\ Lc /\ pc = "done" /\ Len(key_indices) = 3
    /\ Len(skipped) = 2
    /\ skipped[1].exc = "AlignmentFailure"
    /\ skipped[2].exc = "DegenerateGeometry"
    /\ returned[1] = <<<<key_indices[2], key_indices[3]>>>>

\* C4: every edge of rgbd_loop_closure, kept or returned, is a pair of
\* keyframes (K[a], K[b]) with a < b and K[a] < K[b], and the information
\* matrix at its position has info[5,5] / (columns * rows) > 0.3.
C4_EdgesFiltered ==
    Lc =>
      LET Good(E, I) ==
            \A k \in 1..Len(E) :
              /\ \E a \in 1..Len(key_indices) : \E b \in (a + 1)..Len(key_indices) :
                    E[k] = <<key_indices[a], key_indices[b]>>
              /\ E[k][1] < E[k][2]
              /\ k <= Len(I)
              /\ 10 * I[k].v55 > 3 * Columns * Rows
      IN /\ Good(edges, infos)
         /\ (pc = "done") => Good(returned[1], returned[3])

\* Scenario 2 returning its edge (0, 5).
C4_Witness ==
    /\ Lc /\ pc = "done" /\ n_files = 10 /\ interval = 5
    /\ returned[1] = <<<<0, 5>>>>
    /\ 10 * returned[3][1].v55 > 3 * Columns * Rows

\* C5: in rgbd_odometry an exception of either estimator leaves the function:
\* the run stops there, with pair i the last one the estimator was called
\* for and frame i + 1 the last one read, and nothing is returned; a run
\* that returns has a triple for every estimator call it made.
C5_SequentialFailureFatal ==
    Odo =>
      /\ (pc \in {"odo_loop", "done"}) =>
            Len(estCalls) = Len(edges) /\ Len(infoCalls) = Len(edges)
      /\ (pc # "done") => returned = NoResult
      /\ (pc = "raised") => ~ENABLED Next
      /\ (pc = "raised" /\ exc \in EstimatorErrors) =>
            /\ Len(edges) = i
            /\ Len(estCalls) = i + 1
            /\ reads = [k \in 1..(i + 2) |-> k - 1]
            /\ exc = "AlignmentFailure" => Len(infoCalls) = i
            /\ exc = "DegenerateGeometry" => Len(infoCalls) = i + 1

\* Three frames: the estimator raised for pair (0, 1); frame 2 was not read.
C5_Witness ==
    /\ Odo /\ pc = "raised" /\ exc = "AlignmentFailure"
    /\ n_files = 3 /\ i = 0 /\ reads = <<0, 1>> /\ returned = NoResult

\* C6: rgbd_odometry with an odometry_method other than point2plane,
\* intensity, hybrid never calls an estimator and never returns: once frame 0
\* is read it raises UnsupportedMethod.  With one of the three it never
\* raises UnsupportedMethod and hands the estimator PointToPlane, Intensity,
\* Hybrid respectively.
C6_UnsupportedMethod ==
    Odo =>
      /\ (odometry_method \notin {"point2plane", "intensity", "hybrid"}) =>
            /\ estCalls = <<>> /\ infoCalls = <<>>
            /\ returned = NoResult
            /\ pc \in {"odo_load0", "odo_method", "raised"}
            /\ (pc = "raised" /\ curr = 0) => exc = "UnsupportedMethod"
      /\ (odometry_method \in {"point2plane", "intensity", "hybrid"}) =>
            /\ exc # "UnsupportedMethod"
            /\ \A c \in 1..Len(estCalls) :
                  /\ odometry_method = "point2plane" => estCalls[c].method = "PointToPlane"
                  /\ odometry_method = "intensity" => estCalls[c].method = "Intensity"
                  /\ odometry_method = "hybrid" => estCalls[c].method = "Hybrid"

\* odometry_method = "bogus" on three frames: UnsupportedMethod.
C6_Witness ==
    /\ Odo /\ odometry_method = "bogus" /\ n_files = 3
    /\ pc = "raised" /\ exc = "UnsupportedMethod"
    /\ estCalls = <<>> /\ infoCalls = <<>>

\* C7 as stated: when rgbd_odometry raises UnsupportedMethod no frame, frame
\* 0 included, has been read.
C7_NoReadBeforeUnsupported ==
    (Odo /\ exc = "UnsupportedMethod") => reads = <<>>

\* C7 amended: when rgbd_odometry raises UnsupportedMethod, frame 0 and no
\* other frame has been read, and no estimator has been called.
C7_OnlyFrame0ReadBeforeUnsupported ==
    (Odo /\ exc = "UnsupportedMethod") =>
        /\ reads = <<0>>
        /\ curr = 0 /\ next = NoFrame
        /\ estCalls = <<>> /\ infoCalls = <<>>

\* odometry_method = "bogus" on two frames: raised with frame 0 read.
C7_Witness ==
    /\ Odo /\ odometry_method = "bogus" /\ n_files = 2
    /\ exc = "UnsupportedMethod" /\ reads = <<0>>

\* The run in which exactly one pair raised, in the estimator, and which
\* returned.
OneAlignmentFailure ==
    /\ Lc /\ pc = "done"
    /\ Len(skipped) = 1 /\ skipped[1].exc = "AlignmentFailure"

\* s without the elements equal to e.
Without(s, e) == SelectSeq(s, LAMBDA x : x # e)

\* C8 as stated: a run of rgbd_loop_closure in which exactly one pair raised
\* AlignmentFailure went on through all pairs, raised nothing, and returns
\* exactly one edge fewer than the run on the same inputs in which no
\* estimator raises.
C8_ExactlyOneEdgeFewer ==
    /\ Lc => exc \notin EstimatorErrors
    /\ OneAlignmentFailure =>
          /\ CalledPairs = AllPairs(key_indices)
          /\ Len(returned[1]) = Len(baseline) - 1

\* C8 amended: such a run went on through all pairs, raised nothing, and
\* returns the edges of the run without failure less the pair that raised:
\* one edge fewer when that run keeps the pair (its ratio is above 0.3),
\* the same edges when that run filters the pair out.
C8_AtMostOneEdgeFewer ==
    /\ Lc => exc \notin EstimatorErrors
    /\ OneAlignmentFailure =>
          /\ CalledPairs = AllPairs(key_indices)
          /\ returned[1] = Without(baseline, skipped[1].edge)
          /\ skipped[1].keep <=> skipped[1].edge \in Elems(baseline)
          /\ skipped[1].keep => Len(returned[1]) = Len(baseline) - 1
          /\ ~skipped[1].keep => Len(returned[1]) = Len(baseline)

\* Three keyframes: the middle pair raised AlignmentFailure, the run without
\* failure would have filtered it out, and both runs return the other two.
C8_Witness ==
    /\ OneAlignmentFailure /\ Len(key_indices) = 3
    /\ skipped[1].edge = <<key_indices[1], key_indices[3]>>
    /\ ~skipped[1].keep
    /\ Len(returned[1]) = 2 /\ Len(baseline) = 2

\* C9: the keyframes of rgbd_loop_closure are exactly the frame indices
\* 0, interval, 2 * interval, ... below N; the estimator is called once for
\* each pair (K[a], K[b]), a < b, with the identity as init, M * (M - 1) / 2
\* calls in a run that returns; for N = 10 and interval = 5 the keyframes
\* are 0 and 5, the one pair is (0, 5) and at most one edge is returned.
C9_KeyframesAndPairs ==
    (Lc /\ pc # "lc_setup") =>
      LET M == Len(key_indices) IN
      /\ \A k \in 1..M : key_indices[k] = (k - 1) * interval /\ key_indices[k] < n_files
      /\ \A f \in 0..(n_files - 1) : f % interval = 0 => f \in Elems(key_indices)
      /\ \A c \in 1..Len(estCalls) :
            /\ estCalls[c].init = "identity"
            /\ \E a \in 1..M : \E b \in (a + 1)..M :
                  CalledPairs[c] = <<key_indices[a], key_indices[b]>>
      /\ Cardinality(Elems(CalledPairs)) = Len(estCalls)
      /\ (pc = "done") =>
            /\ 2 * Len(estCalls) = M * (M - 1)
            /\ \A a \in 1..M : \A b \in (a + 1)..M :
                  <<key_indices[a], key_indices[b]>> \in Elems(CalledPairs)
      /\ (n_files = 10 /\ interval = 5) =>
            /\ key_indices = <<0, 5>>
            /\ (pc = "done") => CalledPairs = <<<<0, 5>>>> /\ Len(returned[1]) \in {0, 1}

\* Scenario 2 returning no edge after its one estimator call.
C9_Witness ==
    /\ Lc /\ pc = "done" /\ n_files = 10 /\ interval = 5
    /\ key_indices = <<0, 5>>
    /\ CalledPairs = <<<<0, 5>>>>
    /\ returned[1] = <<>>

\* (a, b) before (c, d) in lexicographic order.
LexLess(e, f) == e[1] < f[1] \/ (e[1] = f[1] /\ e[2] < f[2])

\* The place of the first call of the estimator for the pair e.
CallOf(e) == CHOOSE c \in 1..Len(estCalls) : CalledPairs[c] = e

\* C10: the edges of rgbd_loop_closure are in the order in which their pairs
\* were evaluated, i ascending and j ascending within i: the list is
\* strictly increasing in lexicographic order, so no edge is in it twice.
C10_EdgesInEvaluationOrder ==
    Lc =>
      LET Ordered(E) ==
            \A a \in 1..Len(E) : \A b \in (a + 1)..Len(E) :
              /\ LexLess(E[a], E[b])
              /\ E[a] # E[b]
              /\ CallOf(E[a]) < CallOf(E[b])
      IN /\ Ordered(edges)
         /\ (pc = "done") => Ordered(returned[1])

\* Three keyframes, all three pairs returned.
C10_Witness ==
    /\ Lc /\ pc = "done" /\ Len(key_indices) = 3
    /\ returned[1] = <<<<key_indices[1], key_indices[2]>>,
                       <<key_indices[1], key_indices[3]>>,
                       <<key_indices[2], key_indices[3]>>>>

\* C11: an exception of read_image leaves either function as it is: the run
\* ends there and returns nothing; rgbd_loop_closure passes over a pair only
\* for an exception of an estimator, so in a run that returns every frame
\* that was read for a pair was handed to the estimator.
C11_LoadFailurePropagates ==
    /\ \A s \in 1..Len(skipped) : skipped[s].exc # "ResourceLoadFailure"
    /\ (exc = "ResourceLoadFailure") =>
          /\ pc = "raised"
          /\ returned = NoResult
          /\ ~ENABLED Next
          /\ Len(reads) >= 1
          /\ Lc => Len(estCalls) + i + 1 <= Len(reads)
    /\ (Lc /\ pc = "done") =>
          Len(reads) = Len(estCalls)
                       + (IF Len(key_indices) >= 1 THEN Len(key_indices) - 1 ELSE 0)
    /\ (Odo /\ pc = "done") => Len(reads) = Len(estCalls) + 1

\* Three keyframes: pair (K1, K2) was evaluated, then the read of K3 for the
\* pair (K1, K3) raised and ended the run.
C11_Witness ==
    /\ Lc /\ pc = "raised" /\ exc = "ResourceLoadFailure"
    /\ Len(key_indices) = 3
    /\ reads = <<key_indices[1], key_indices[2], key_indices[3]>>
    /\ Len(estCalls) = 1 /\ skipped = <<>>

\* C12: the debug block of rgbd_loop_closure only observes.  The step that
\* keeps or discards a pair does the same to the three lists whether
\* debug_mode is set or not, and the debug block that follows it when
\* debug_mode is set changes no list, no local and no call made before it and
\* leaves the loop where the run without debug_mode is after the filter: at
\* the next j.  So for the same inputs and estimator outcomes a run that
\* returns with debug_mode set returns what the run without it returns.
C12_DebugOnlyObserves ==
    [][/\ (pc = "lc_filter") =>
            /\ lists' = (IF 10 * info.v55 > 3 * Columns * Rows
                         THEN <<Append(edges, <<curr, next>>),
                                Append(poses, res), Append(infos, info)>>
                         ELSE lists)
            /\ UNCHANGED <<res, info, curr, next, i, key_indices, returned>>
            /\ (~debug_mode) => (pc' = "lc_inner" /\ j' = j + 1)
            /\ debug_mode => (pc' = "lc_debug" /\ j' = j)
       /\ (pc = "lc_debug") =>
            /\ UNCHANGED <<lists, res, info, curr, next, i, key_indices,
                           method, returned, reads, estCalls, infoCalls,
                           skipped, baseline, config>>
            /\ \/ pc' = "lc_inner" /\ j' = j + 1
               \/ pc' = "raised"
      ]_vars

\* Three keyframes with debug_mode set: all three pairs drawn, two returned.
C12_Witness ==
    /\ Lc /\ debug_mode /\ pc = "done" /\ Len(key_indices) = 3
    /\ Len(debugCalls) = 3
    /\ Len(returned[1]) = 2
    /\ returned[1] = baseline

\* C13 as stated: rgbd_loop_closure with an odometry_method other than
\* point2plane, intensity, hybrid calls no estimator and does not return,
\* and with one of the three hands the estimator the method of that name.
C13_LoopClosureHonoursMethod ==
    Lc =>
      /\ (odometry_method \notin {"point2plane", "intensity", "hybrid"}) =>
            estCalls = <<>> /\ infoCalls = <<>> /\ pc # "done"
      /\ \A c \in 1..Len(estCalls) :
            /\ odometry_method = "point2plane" => estCalls[c].method = "PointToPlane"
            /\ odometry_method = "intensity" => estCalls[c].method = "Intensity"
            /\ odometry_method = "hybrid" => estCalls[c].method = "Hybrid"

\* C13 amended: rgbd_loop_closure does not read odometry_method: whatever
\* its value, the function never raises UnsupportedMethod and hands the
\* estimator PointToPlane.
C13_LoopClosureIgnoresMethod ==
    Lc =>
      /\ exc # "UnsupportedMethod"
      /\ (pc # "lc_setup") => method = "PointToPlane"
      /\ \A c \in 1..Len(estCalls) : estCalls[c].method = "PointToPlane"

\* odometry_method = "bogus": the run returns after an estimator call with
\* PointToPlane.
C13_Witness ==
    /\ Lc /\ odometry_method = "bogus" /\ pc = "done"
    /\ Len(estCalls) >= 1
    /\ estCalls[1].method = "PointToPlane"
    /\ Len(returned[1]) >= 1

\* C15: rgbd_odometry reads frame 0 first and then, for i = 0, 1, ... in
\* turn, reads frame i + 1, calls the estimator on (frame i, frame i + 1)
\* with the identity as init, calls the information estimator on the same
\* pair with the transformation just returned, appends, and makes frame
\* i + 1 the current frame: the frames are read in the order 0, 1, 2, ...,
\* each once, and at the start of iteration i the current frame is frame i.
C15_SequentialProtocol ==
    Odo =>
      /\ \A k \in 1..Len(reads) : reads[k] = k - 1
      /\ \A c \in 1..Len(estCalls) :
            /\ estCalls[c].src = c - 1 /\ estCalls[c].dst = c
            /\ estCalls[c].init = "identity"
      /\ \A c \in 1..Len(infoCalls) :
            /\ infoCalls[c].src = c - 1 /\ infoCalls[c].dst = c
            /\ infoCalls[c].transformation.src = c - 1
            /\ infoCalls[c].transformation.dst = c
      /\ (pc = "odo_method") => reads = <<0>> /\ curr = 0 /\ estCalls = <<>>
      /\ (pc = "odo_loop") =>
            /\ curr = i
            /\ Len(reads) = i + 1
            /\ Len(estCalls) = i /\ Len(infoCalls) = i /\ Len(edges) = i
      /\ (pc = "odo_est") =>
            /\ curr = i /\ next = i + 1
            /\ Len(reads) = i + 2
            /\ Len(estCalls) = i /\ Len(infoCalls) = i /\ Len(edges) = i
      /\ (pc = "odo_info") =>
            /\ curr = i /\ next = i + 1
            /\ res.src = i /\ res.dst = i + 1
            /\ Len(reads) = i + 2
            /\ Len(estCalls) = i + 1 /\ Len(infoCalls) = i /\ Len(edges) = i
      /\ (pc = "odo_append") =>
            /\ curr = i /\ next = i + 1
            /\ info.src = i /\ info.dst = i + 1 /\ info.transformation = res
            /\ Len(reads) = i + 2
            /\ Len(estCalls) = i + 1 /\ Len(infoCalls) = i + 1 /\ Len(edges) = i
      /\ (pc = "done") =>
            /\ reads = [k \in 1..n_files |-> k - 1]
            /\ Len(estCalls) = n_files - 1 /\ Len(infoCalls) = n_files - 1

\* Three frames: read in the order 0, 1, 2 and (1, 2) the second pair of
\* both estimators.
C15_Witness ==
    /\ Odo /\ pc = "done" /\ n_files = 3
    /\ reads = <<0, 1, 2>>
    /\ estCalls[2].src = 1 /\ estCalls[2].dst = 2 /\ estCalls[2].init = "identity"
    /\ infoCalls[2].src = 1 /\ infoCalls[2].dst = 2
    /\ curr = 2

\* The frame pair an information matrix was computed for.
PairOf(m) == <<m.src, m.dst>>

\* C16: a pair of rgbd_loop_closure is in the lists, once, exactly when both
\* estimators returned for it and info[5,5] / (columns * rows) is above
\* 0.3: once the filter has run on an information matrix, its pair is an
\* edge if and only if its ratio is above 0.3, a pair at or below 0.3 went
\* through both estimators and left nothing, and a pair that raised is no
\* edge.
C16_FilterExact ==
    Lc =>
      /\ (info # NoInfo /\ pc # "lc_filter") =>
            /\ PairOf(info) \in Elems(edges) <=> 10 * info.v55 > 3 * Columns * Rows
            /\ info \in Elems(infos) <=> 10 * info.v55 > 3 * Columns * Rows
            /\ info.transformation \in Elems(poses)
                  <=> 10 * info.v55 > 3 * Columns * Rows
            /\ PairOf(info) \in Elems(CalledPairs)
            /\ \E c \in 1..Len(infoCalls) :
                  /\ <<infoCalls[c].src, infoCalls[c].dst>> = PairOf(info)
                  /\ infoCalls[c].transformation = info.transformation
      /\ (pc = "lc_filter") =>
            /\ PairOf(info) = LcEdge
            /\ LcEdge \notin Elems(edges)
            /\ CalledPairs[Len(estCalls)] = LcEdge
            /\ infoCalls[Len(infoCalls)].src = LcEdge[1]
            /\ infoCalls[Len(infoCalls)].dst = LcEdge[2]
      /\ Cardinality(Elems(edges)) = Len(edges)
      /\ \A k \in 1..Len(edges) :
            /\ \A s \in 1..Len(skipped) : skipped[s].edge # edges[k]
            /\ \E c \in 1..Len(infoCalls) :
                  <<infoCalls[c].src, infoCalls[c].dst>> = edges[k]
            /\ 10 * infos[k].v55 > 3 * Columns * Rows

\* The filter has just discarded a pair whose ratio is exactly 0.3, after an
\* earlier pair was kept.
C16_Witness ==
    /\ Lc /\ pc = "lc_inner" /\ info # NoInfo
    /\ 10 * info.v55 = 3 * Columns * Rows
    /\ PairOf(info) \in Elems(CalledPairs)
    /\ PairOf(info) \notin Elems(edges)
    /\ Len(edges) = 1

\* The reads of rgbd_loop_closure over the keyframes K from outer index a
\* (1-based) on: K[a], then K[a+1], ..., K[M], then the same for a + 1.
RECURSIVE ReadsFrom(_, _)
ReadsFrom(K, a) ==
    IF a >= Len(K) THEN <<>>
    ELSE <<K[a]>> \o SubSeq(K, a + 1, Len(K)) \o ReadsFrom(K, a + 1)

\* C17: rgbd_loop_closure holds a current and a next keyframe and no other
\* frame; it reads keyframe K[i] once per outer iteration and keyframe K[j]
\* anew for every pair; and whenever an estimator is called for the pair
\* (K[i], K[j]) the source is the frame read from index K[i] and the target
\* the frame read from index K[j], so that an edge names the frames that
\* were aligned.
C17_LoopClosureFrames ==
    (Lc /\ pc # "lc_setup") =>
      /\ reads = SubSeq(ReadsFrom(key_indices, 1), 1, Len(reads))
      /\ (pc = "done") => reads = ReadsFrom(key_indices, 1)
      /\ (pc \in {"lc_inner", "lc_est", "lc_info", "lc_filter", "lc_debug"}) =>
            /\ curr = key_indices[i + 1]
            /\ reads # <<>>
      /\ (pc \in {"lc_est", "lc_info", "lc_filter", "lc_debug"}) =>
            /\ next = key_indices[j + 1]
            /\ reads[Len(reads)] = next
            /\ i < j
      /\ (pc \in {"lc_info", "lc_filter", "lc_debug"}) =>
            /\ estCalls[Len(estCalls)].src = key_indices[i + 1]
            /\ estCalls[Len(estCalls)].dst = key_indices[j + 1]
      /\ (pc \in {"lc_filter", "lc_debug"}) =>
            /\ infoCalls[Len(infoCalls)].src = key_indices[i + 1]
            /\ infoCalls[Len(infoCalls)].dst = key_indices[j + 1]
      /\ \A c \in 1..Len(estCalls) :
            /\ estCalls[c].src \in Elems(reads) /\ estCalls[c].dst \in Elems(reads)
            /\ estCalls[c].src < estCalls[c].dst
      /\ \A k \in 1..Len(edges) :
            /\ poses[k].src = edges[k][1] /\ poses[k].dst = edges[k][2]
            /\ infos[k].src = edges[k][1] /\ infos[k].dst = edges[k][2]
            /\ edges[k][1] \in Elems(key_indices)
            /\ edges[k][2] \in Elems(key_indices)

\* Three keyframes: K1 read once for its two pairs, K2 and K3 for them, then
\* K2 once and K3 again; the last edge names K2 and K3.
C17_Witness ==
    /\ Lc /\ pc = "done" /\ Len(key_indices) = 3
    /\ reads = <<key_indices[1], key_indices[2], key_indices[3],
                 key_indices[2], key_indices[3]>>
    /\ Len(edges) >= 1
    /\ edges[Len(edges)] = <<key_indices[2], key_indices[3]>>
    /\ poses[Len(poses)].src = key_indices[2]
    /\ poses[Len(poses)].dst = key_indices[3]

\* The pairs both estimators returned for, in call order.
ComputedPairs ==
    SelectSeq(CalledPairs,
              LAMBDA p : \A s \in 1..Len(skipped) : skipped[s].edge # p)

\* C18: with debug_mode set the debug block of rgbd_loop_closure runs once
\* for every pair for which both estimators returned, kept or discarded,
\* after the filter has decided, and never for a pair that raised; without
\* debug_mode it never runs.  An exception of the block is not passed over:
\* it leaves the function, which returns nothing.
C18_DebugHook ==
    Lc =>
      /\ (~debug_mode) => debugCalls = <<>> /\ pc # "lc_debug"
      /\ (debug_mode /\ pc \notin {"lc_info", "lc_filter", "lc_debug"}) =>
            debugCalls = ComputedPairs
      /\ (debug_mode /\ pc \in {"lc_info", "lc_filter", "lc_debug"}) =>
            /\ Len(ComputedPairs) = Len(debugCalls) + 1
            /\ debugCalls = SubSeq(ComputedPairs, 1, Len(debugCalls))
      /\ Cardinality(Elems(debugCalls)) = Len(debugCalls)
      /\ \A s \in 1..Len(skipped) :
            /\ skipped[s].edge \notin Elems(debugCalls)
            /\ skipped[s].exc # "DebugHookFailure"
      /\ (pc = "lc_debug") =>
            (LcEdge \in Elems(edges) <=> 10 * info.v55 > 3 * Columns * Rows)
      /\ (exc = "DebugHookFailure") =>
            /\ debug_mode
            /\ pc = "raised"
            /\ returned = NoResult
            /\ ~ENABLED Next

\* Three keyframes with debug_mode set: the first pair raised and was not
\* drawn, the second was kept and drawn, the third was discarded and the
\* block raised while drawing it.
C18_Witness ==
    /\ Lc /\ debug_mode /\ Len(key_indices) = 3
    /\ pc = "raised" /\ exc = "DebugHookFailure"
    /\ Len(skipped) = 1 /\ skipped[1].edge = <<key_indices[1], key_indices[2]>>
    /\ debugCalls = <<<<key_indices[1], key_indices[3]>>,
                      <<key_indices[2], key_indices[3]>>>>
    /\ edges = <<<<key_indices[1], key_indices[3]>>>>

EmptyLists == <<<<>>, <<>>, <<>>>>

\* C19: rgbd_loop_closure on N <= interval frames (fewer than two
\* keyframes, N = 0 included) reads no image, calls no estimator, raises
\* nothing and returns three empty lists.  rgbd_odometry on one frame reads
\* frame 0 only, calls no estimator and, with a supported method and frame 0
\* read, returns three empty lists; on no frame it raises for frame 0 and
\* returns nothing.
C19_DegenerateLengths ==
    /\ (Lc /\ n_files <= interval) =>
          /\ reads = <<>> /\ estCalls = <<>> /\ infoCalls = <<>>
          /\ pc \in {"lc_setup", "lc_outer", "done"}
          /\ exc = "none"
          /\ (pc # "lc_setup") => Len(key_indices) < 2
          /\ (pc = "done") => returned = EmptyLists
          /\ (pc # "done") => ENABLED Next
    /\ (Odo /\ n_files = 1) =>
          /\ reads \in {<<>>, <<0>>}
          /\ estCalls = <<>> /\ infoCalls = <<>>
          /\ (pc = "raised") =>
                \/ exc = "ResourceLoadFailure"
                \/ exc = "UnsupportedMethod"
                     /\ odometry_method \notin {"point2plane", "intensity", "hybrid"}
          /\ (pc = "done") => returned = EmptyLists /\ reads = <<0>>
          /\ (pc \notin {"done", "raised"}) => ENABLED Next
    /\ (Odo /\ n_files = 0) =>
          /\ pc \in {"odo_load0", "raised"}
          /\ (pc = "raised") => exc = "IndexError"
          /\ (pc = "odo_load0") => ENABLED Next
          /\ returned = NoResult
          /\ reads = <<>> /\ estCalls = <<>>

\* Two frames at interval 2: one keyframe, nothing read, three empty lists.
C19_Witness ==
    /\ Lc /\ n_files = 2 /\ interval = 2 /\ pc = "done"
    /\ key_indices = <<0>>
    /\ reads = <<>> /\ estCalls = <<>>
    /\ returned = EmptyLists

\* Either function has ended: it returned or an exception left it.
Ended == pc \in {"done", "raised"}

\* C20: both functions end.  rgbd_odometry calls the estimator at most
\* N - 1 times and rgbd_loop_closure at most M * (M - 1) / 2 times, however
\* many pairs raise or are filtered out, and none for a pair it was called
\* for before; rgbd_loop_closure ends by returning unless a read or the
\* debug block raises.
C20_Termination ==
    /\ <>Ended
    /\ [](/\ Cardinality(Elems(CalledPairs)) = Len(estCalls)
          /\ Odo => (n_files >= 1 => Len(estCalls) <= n_files - 1)
          /\ Odo => (n_files = 0 => estCalls = <<>>)
          /\ Odo => i <= (IF n_files >= 1 THEN n_files - 1 ELSE 0)
          /\ Lc => 2 * Len(estCalls) <= Len(key_indices) * (Len(key_indices) - 1)
          /\ (Lc /\ pc = "raised") =>
                exc \in {"ResourceLoadFailure", "DebugHookFailure"}
          /\ Ended => ~ENABLED Next)

\* Three keyframes, every one of the three pairs raised: the function
\* returned, with empty lists, after three estimator calls.
C20_Witness ==
    /\ Lc /\ pc = "done" /\ Len(key_indices) = 3
    /\ Len(estCalls) = 3 /\ Len(skipped) = 3
    /\ returned = EmptyLists

====
